---------------------------- MODULE Spec2Model ----------------------------
(***************************************************************************)
(* Model of the encrypted credential vault of project3.py (class           *)
(* PasswordManager and main).  Strings are sequences of one-character      *)
(* strings so that str.lower() and substring tests are computed, the       *)
(* passwords dict is a sequence of key/value entries in insertion order    *)
(* (Python dict order), and the three files are variables that survive     *)
(* from one process run to the next.                                       *)
(*                                                                         *)
(* I/O faults are modelled where the code handles them: the write of the   *)
(* vault file inside the try block of _save_passwords.                     *)
(***************************************************************************)
EXTENDS Integers, Sequences, FiniteSets, TLC

VARIABLES
    masterHashFile, \* contents of '.master.hash'; <<>> when the file is absent
    keyFile,        \* contents of '.secret.key'; NoKey when the file is absent
    dataFile,       \* contents of 'passwords.enc', see NoFile / Encrypt / Truncated
    key,            \* self.key of the running session; NoKey is None
    passwords,      \* self.passwords, entries in insertion order
    pc,             \* position of main: "start", "menu" or "exited"
    laterRun,       \* FALSE in the first process run over the files, TRUE in every later one
    lastCall,       \* the last method call: arguments, return value, printed lines
    io,             \* file operations performed by the last step
    keyGens,        \* how many times Fernet.generate_key() has been called
    setupMaster,    \* the master password whose hash was saved (<<>> before setup)
    faults,         \* number of injected write faults so far
    gen             \* the running call of generate_password: arguments, list, position

vaultVars == <<masterHashFile, keyFile, dataFile, key, passwords, pc, laterRun,
               lastCall, io, keyGens, setupMaster, faults>>

vars == <<vaultVars, gen>>

----------------------------------------------------------------------------
(* Bounds *)

MaxFaults == 1
MaxLength == 5

----------------------------------------------------------------------------
(* Input domains *)

Services == { <<"G", "m">>, <<"g", "m">>, <<"b">> }
Usernames == { <<"a">>, <<"B">> }
UserPasswords == { <<"p">> }
GeneratedPasswords == { <<"Q">> }
MasterPasswords == { <<"c">>, <<"w">> }
Queries == { <<>>, <<"M">>, <<"b">>, <<"z">> }
NoKey == <<>>

----------------------------------------------------------------------------
(* str.lower() *)

LowerChar(c) ==
    CASE c = "G" -> "g"
      [] c = "M" -> "m"
      [] c = "B" -> "b"
      [] c = "A" -> "a"
      [] c = "Q" -> "q"
      [] OTHER -> c

lower(s) == [i \in 1..Len(s) |-> LowerChar(s[i])]

----------------------------------------------------------------------------
(* Python dict operations on self.passwords *)

HasKey(d, k) == \E i \in 1..Len(d) : d[i].key = k

IndexOf(d, k) == CHOOSE i \in 1..Len(d) : d[i].key = k

DictGet(d, k) == d[IndexOf(d, k)].value

DictSet(d, k, v) ==
    IF HasKey(d, k)
    THEN [d EXCEPT ![IndexOf(d, k)] = [key |-> k, value |-> v]]
    ELSE Append(d, [key |-> k, value |-> v])

DictDel(d, k) == SelectSeq(d, LAMBDA e : e.key # k)

\* dict equality ignores insertion order
DictEq(d1, d2) ==
    /\ Len(d1) = Len(d2)
    /\ \A i \in 1..Len(d1) : HasKey(d2, d1[i].key) /\ DictGet(d2, d1[i].key) = d1[i].value

----------------------------------------------------------------------------
(* json.dumps / json.loads: the text is the flat sequence of the strings   *)
(* of every entry: key, service, username, password.                       *)

RECURSIVE JsonDumps(_)
JsonDumps(d) ==
    IF d = <<>> THEN <<>>
    ELSE <<d[1].key, d[1].value.service, d[1].value.username, d[1].value.password>>
         \o JsonDumps(Tail(d))

RECURSIVE JsonLoads(_)
JsonLoads(t) ==
    IF Len(t) < 4 THEN <<>>
    ELSE DictSet(JsonLoads(SubSeq(t, 1, Len(t) - 4)),
                 t[Len(t) - 3],
                 [service |-> t[Len(t) - 2], username |-> t[Len(t) - 1],
                  password |-> t[Len(t)]])

----------------------------------------------------------------------------
(* Fernet: a token carries the key it was made with; decrypt authenticates *)

NoFile == [exists |-> FALSE, intact |-> FALSE, key |-> NoKey, data |-> <<>>]
Truncated == [exists |-> TRUE, intact |-> FALSE, key |-> NoKey, data |-> <<>>]

Encrypt(data, k) == [exists |-> TRUE, intact |-> TRUE, key |-> k, data |-> data]

CanDecrypt(blob, k) == blob.exists /\ blob.intact /\ blob.key = k /\ k # NoKey

Decrypt(blob, k) == blob.data

\* faulty variant: the hash ignores the password
_hash_password_constant(password) == <<"sha256", <<>>>>

\* hashlib.sha256(password.encode()).hexdigest()
_hash_password(password) == <<"sha256", password>>


----------------------------------------------------------------------------
(* Return values and printed lines of a call *)

None == <<>>

\* replaced: the service field of the record the call overwrote or removed
\* (history, not program state)
Call(op, service, username, password, ret, result, out, replaced) ==
    [op |-> op, service |-> service, username |-> username, password |-> password,
     ret |-> ret, result |-> result, out |-> out, replaced |-> replaced]

NoCall == Call("none", None, None, None, "None", <<>>, <<>>, <<>>)

Old(d, k) == IF HasKey(d, k) THEN <<DictGet(d, k).service>> ELSE <<>>

----------------------------------------------------------------------------
(* generate_password(length, use_symbols, use_numbers), statement by       *)
(* statement.  The character classes of the string module are cut down to  *)
(* a few characters each; secrets.choice is a free choice in the class.    *)

ascii_lowercase == {"a", "b"}
ascii_uppercase == {"A"}
digits == {"1"}
punctuation == {"!"}
ascii_letters == ascii_lowercase \cup ascii_uppercase

\* chars, lines 101-106
Chars(use_symbols, use_numbers) ==
    ascii_letters \cup (IF use_numbers THEN digits ELSE {})
                  \cup (IF use_symbols THEN punctuation ELSE {})

GenIdle == [pc |-> "idle", length |-> 0, use_symbols |-> FALSE, use_numbers |-> FALSE,
            password |-> <<>>, left |-> 0, i |-> 0, ret |-> "None"]

\* lines 108-115: one character of every requested class, then the count of
\* range(length - len(password)), which is empty for a negative argument
GenCall ==
    /\ gen.pc = "idle"
    /\ \E length \in 0..MaxLength, use_symbols \in BOOLEAN, use_numbers \in BOOLEAN :
       \E d \in digits, p \in punctuation, l \in ascii_lowercase, u \in ascii_uppercase :
          LET password == (IF use_numbers THEN <<d>> ELSE <<>>)
                          \o (IF use_symbols THEN <<p>> ELSE <<>>)
                          \o <<l>> \o <<u>>
          IN gen' = [pc |-> "fill", length |-> length, use_symbols |-> use_symbols,
                     use_numbers |-> use_numbers, password |-> password,
                     left |-> IF length > Len(password) THEN length - Len(password) ELSE 0,
                     i |-> 0, ret |-> "None"]
    /\ UNCHANGED vaultVars

\* lines 118-119: one pass of the fill loop
GenFill ==
    /\ gen.pc = "fill"
    /\ gen.left > 0
    /\ \E c \in Chars(gen.use_symbols, gen.use_numbers) :
          gen' = [gen EXCEPT !.password = Append(@, c), !.left = @ - 1]
    /\ UNCHANGED vaultVars

\* the fill loop is over; shuffle starts at the last index (0-based i)
GenFillDone ==
    /\ gen.pc = "fill"
    /\ gen.left = 0
    /\ gen' = [gen EXCEPT !.pc = "shuffle", !.i = Len(gen.password) - 1]
    /\ UNCHANGED vaultVars

\* line 122, random.shuffle: for i from len-1 down to 1, swap x[i] with x[j],
\* j drawn from 0..i
GenShuffle ==
    /\ gen.pc = "shuffle"
    /\ gen.i >= 1
    /\ \E j \in 0..gen.i :
          gen' = [gen EXCEPT !.password = [@ EXCEPT ![gen.i + 1] = gen.password[j + 1],
                                                    ![j + 1] = gen.password[gen.i + 1]],
                             !.i = @ - 1]
    /\ UNCHANGED vaultVars

\* line 123: the joined string is returned; no path raises or returns None
GenReturn ==
    /\ gen.pc = "shuffle"
    /\ gen.i < 1
    /\ gen' = [gen EXCEPT !.pc = "returned", !.ret = "str"]
    /\ UNCHANGED vaultVars

\* the caller has the password; the next call may start
GenNext ==
    /\ gen.pc = "returned"
    /\ gen' = GenIdle
    /\ UNCHANGED vaultVars

----------------------------------------------------------------------------
(* PasswordManager.__init__ and the files before the first run *)

Init ==
    /\ masterHashFile = <<>>
    /\ keyFile = NoKey
    /\ dataFile = NoFile
    /\ key = NoKey
    /\ passwords = <<>>
    /\ pc = "start"
    /\ laterRun = FALSE
    /\ lastCall = NoCall
    /\ io = {}
    /\ keyGens = 0
    /\ setupMaster = <<>>
    /\ faults = 0
    /\ gen = GenIdle

----------------------------------------------------------------------------
(* _initialize_encryption: load the key file, or generate and write a key *)

\* Fernet.generate_key(): 32 random bytes, the n-th key generated differs
\* from every earlier one
generate_key(n) == <<"key", n>>

\* faulty variant: a key is generated on every run, the key file is never consulted
_initialize_encryption_regenerates ==
    /\ key' = generate_key(keyGens + 1)
    /\ keyFile' = key'
    /\ keyGens' = keyGens + 1

_initialize_encryption ==
    IF keyFile # NoKey
    THEN /\ key' = keyFile
         /\ UNCHANGED <<keyFile, keyGens>>
    ELSE /\ key' = generate_key(keyGens + 1)
         /\ keyFile' = key'
         /\ keyGens' = keyGens + 1

\* _load_passwords: {} when the file is absent, and {} when anything raises
LoadFails(blob, k) == blob.exists /\ ~CanDecrypt(blob, k)

_load_passwords(blob, k) ==
    IF ~blob.exists THEN <<>>
    ELSE IF CanDecrypt(blob, k) THEN JsonLoads(Decrypt(blob, k))
    ELSE <<>>

LoadPrinted(blob, k) ==
    IF LoadFails(blob, k) THEN <<"Error loading passwords">> ELSE <<>>

\* the part of setup_master_password after the password checks (lines 41-44)
Unlock(master, printed, files) ==
    /\ _initialize_encryption
    /\ passwords' = _load_passwords(dataFile, key')
    /\ lastCall' = Call("setup", None, None, master, "True", <<>>,
                        printed \o LoadPrinted(dataFile, key'), <<>>)
    /\ io' = files \cup (IF keyFile # NoKey THEN {"readKey"} ELSE {"writeKey"})
                   \cup (IF dataFile.exists THEN {"readData"} ELSE {})

Refuse(master, printed, files) ==
    /\ lastCall' = Call("setup", None, None, master, "False", <<>>, printed, <<>>)
    /\ io' = files
    /\ UNCHANGED <<keyFile, key, keyGens, passwords>>

setup_master_password(master, confirm) ==
    IF masterHashFile # <<>>
    THEN /\ UNCHANGED <<masterHashFile, setupMaster>>
         /\ IF _hash_password(master) # masterHashFile
            THEN Refuse(master, <<"Incorrect master password!">>, {"readHash"})
            ELSE Unlock(master, <<>>, {"readHash"})
    ELSE IF master # confirm
         THEN /\ UNCHANGED <<masterHashFile, setupMaster>>
              /\ Refuse(master, <<"Passwords don't match!">>, {})
         ELSE /\ masterHashFile' = _hash_password(master)
              /\ setupMaster' = master
              /\ Unlock(master, <<"Master password created!">>, {"writeHash"})

----------------------------------------------------------------------------
(* _save_passwords: serialize, encrypt, open for writing, write; any        *)
(* exception is caught and printed.  open_failed: open() raises and the    *)
(* file is untouched; write_failed: open() has truncated the file and      *)
(* write() raises.                                                         *)

SaveOutcomes == {"ok", "open_failed", "write_failed"}

\* faulty variant: the mapping is serialized as it was before the change
_save_passwords_stale(d, outcome) ==
    /\ outcome # "ok" => faults < MaxFaults
    /\ dataFile' = CASE outcome = "ok" -> Encrypt(JsonDumps(passwords), key)
                     [] outcome = "open_failed" -> dataFile
                     [] outcome = "write_failed" -> Truncated
    /\ faults' = IF outcome = "ok" THEN faults ELSE faults + 1

_save_passwords(d, outcome) ==
    /\ outcome # "ok" => faults < MaxFaults
    /\ dataFile' = CASE outcome = "ok" -> Encrypt(JsonDumps(d), key)
                     [] outcome = "open_failed" -> dataFile
                     [] outcome = "write_failed" -> Truncated
    /\ faults' = IF outcome = "ok" THEN faults ELSE faults + 1

SavePrinted(outcome) ==
    IF outcome = "ok" THEN <<>> ELSE <<"Error saving passwords">>

\* generate_password() with its defaults: the set of strings it can return,
\* here one representative
generate_password == GeneratedPasswords

----------------------------------------------------------------------------
(* The vault operations *)

Record(service, username, password) ==
    [service |-> service, username |-> username, password |-> password]

\* faulty variant: the record is stored under the service as typed
add_password_nolower(service, username, password) ==
    \E pw \in (IF password = None THEN generate_password ELSE {password}) :
    \E outcome \in SaveOutcomes :
        /\ passwords' = DictSet(passwords, service, Record(service, username, pw))
        /\ _save_passwords(passwords', outcome)
        /\ lastCall' = Call("add", service, username, pw, "None", <<>>,
                            (IF password = None THEN <<"Generated password">> ELSE <<>>)
                            \o SavePrinted(outcome) \o <<"Password saved">>,
                            Old(passwords, lower(service)))
        /\ io' = {"writeData"}

\* faulty variant: an existing record is kept (setdefault instead of assignment)
add_password_keep(service, username, password) ==
    \E pw \in (IF password = None THEN generate_password ELSE {password}) :
    \E outcome \in SaveOutcomes :
        /\ passwords' = IF HasKey(passwords, lower(service)) THEN passwords
                         ELSE DictSet(passwords, lower(service),
                                      Record(service, username, pw))
        /\ _save_passwords(passwords', outcome)
        /\ lastCall' = Call("add", service, username, pw, "None", <<>>,
                            (IF password = None THEN <<"Generated password">> ELSE <<>>)
                            \o SavePrinted(outcome) \o <<"Password saved">>,
                            Old(passwords, lower(service)))
        /\ io' = {"writeData"}

add_password(service, username, password) ==
    \E pw \in (IF password = None THEN generate_password ELSE {password}) :
    \E outcome \in SaveOutcomes :
        /\ passwords' = DictSet(passwords, lower(service), Record(service, username, pw))
        /\ _save_passwords(passwords', outcome)
        /\ lastCall' = Call("add", service, username, pw, "None", <<>>,
                            (IF password = None THEN <<"Generated password">> ELSE <<>>)
                            \o SavePrinted(outcome) \o <<"Password saved">>,
                            Old(passwords, lower(service)))
        /\ io' = {"writeData"}

\* faulty variant: the lookup uses the service as typed
get_password_nolower(service) ==
    /\ lastCall' = Call("get", service, None, None,
                        IF HasKey(passwords, service) THEN "Dict" ELSE "None",
                        IF HasKey(passwords, service)
                        THEN <<[key |-> service, value |-> DictGet(passwords, service)]>>
                        ELSE <<>>,
                        <<>>, <<>>)
    /\ io' = {}
    /\ UNCHANGED <<passwords, dataFile, faults>>

get_password(service) ==
    /\ lastCall' = Call("get", service, None, None,
                        IF HasKey(passwords, lower(service)) THEN "Dict" ELSE "None",
                        IF HasKey(passwords, lower(service))
                        THEN <<[key |-> lower(service),
                                value |-> DictGet(passwords, lower(service))]>>
                        ELSE <<>>,
                        <<>>, <<>>)
    /\ io' = {}
    /\ UNCHANGED <<passwords, dataFile, faults>>

\* faulty variant: the del statement is missing
delete_password_nodel(service) ==
    IF HasKey(passwords, lower(service))
    THEN \E outcome \in SaveOutcomes :
            /\ passwords' = passwords
            /\ _save_passwords(passwords', outcome)
            /\ lastCall' = Call("delete", service, None, None, "None", <<>>,
                                SavePrinted(outcome) \o <<"Password deleted">>,
                                Old(passwords, lower(service)))
            /\ io' = {"writeData"}
    ELSE /\ lastCall' = Call("delete", service, None, None, "None", <<>>,
                             <<"No password found">>, <<>>)
         /\ io' = {}
         /\ UNCHANGED <<passwords, dataFile, faults>>

\* faulty variant: the vault is saved on the not-found path too
delete_password_savealways(service) ==
    \E outcome \in SaveOutcomes :
        /\ passwords' = DictDel(passwords, lower(service))
        /\ _save_passwords(passwords', outcome)
        /\ lastCall' = Call("delete", service, None, None, "None", <<>>,
                            SavePrinted(outcome) \o
                            (IF HasKey(passwords, lower(service))
                             THEN <<"Password deleted">> ELSE <<"No password found">>),
                            Old(passwords, lower(service)))
        /\ io' = {"writeData"}

delete_password(service) ==
    IF HasKey(passwords, lower(service))
    THEN \E outcome \in SaveOutcomes :
            /\ passwords' = DictDel(passwords, lower(service))
            /\ _save_passwords(passwords', outcome)
            /\ lastCall' = Call("delete", service, None, None, "None", <<>>,
                                SavePrinted(outcome) \o <<"Password deleted">>,
                                Old(passwords, lower(service)))
            /\ io' = {"writeData"}
    ELSE /\ lastCall' = Call("delete", service, None, None, "None", <<>>,
                             <<"No password found">>, <<>>)
         /\ io' = {}
         /\ UNCHANGED <<passwords, dataFile, faults>>

\* Python's `x in s` on strings: x occurs in s as a contiguous substring
IsSubstring(x, s) ==
    \E i \in 0..(Len(s) - Len(x)) : SubSeq(s, i + 1, i + Len(x)) = x

\* faulty variant: the query is compared without lowercasing it
search_nolower(query) ==
    /\ LET results == SelectSeq(passwords, LAMBDA e :
                          \/ IsSubstring(query, e.key)
                          \/ IsSubstring(query, lower(e.value.username)))
       IN lastCall' = Call("search", query, None, None, "Dict", results,
                           IF results # <<>> THEN <<"Found matches">>
                           ELSE <<"No matches found">>,
                           <<>>)
    /\ io' = {}
    /\ UNCHANGED <<passwords, dataFile, faults>>

\* search: the dict comprehension keeps the matching items in dict order;
\* the call's service field holds the query
search(query) ==
    /\ LET query_lower == lower(query)
           results == SelectSeq(passwords, LAMBDA e :
                          \/ IsSubstring(query_lower, e.key)
                          \/ IsSubstring(query_lower, lower(e.value.username)))
       IN lastCall' = Call("search", query, None, None, "Dict", results,
                           IF results # <<>> THEN <<"Found matches">>
                           ELSE <<"No matches found">>,
                           <<>>)
    /\ io' = {}
    /\ UNCHANGED <<passwords, dataFile, faults>>

\* faulty variant: the record is rebuilt with the service as typed
update_password_renames(service, new_password) ==
    IF ~HasKey(passwords, lower(service))
    THEN /\ lastCall' = Call("update", service, None, None, "None", <<>>,
                             <<"Service not found">>, <<>>)
         /\ io' = {}
         /\ UNCHANGED <<passwords, dataFile, faults>>
    ELSE \E pw \in (IF new_password = None THEN generate_password ELSE {new_password}) :
         \E outcome \in SaveOutcomes :
            /\ passwords' = DictSet(passwords, lower(service),
                                    Record(service,
                                           DictGet(passwords, lower(service)).username, pw))
            /\ _save_passwords(passwords', outcome)
            /\ lastCall' = Call("update", service, None, pw, "None", <<>>,
                                (IF new_password = None THEN <<"Generated password">> ELSE <<>>)
                                \o SavePrinted(outcome) \o <<"Password updated">>,
                                Old(passwords, lower(service)))
            /\ io' = {"writeData"}

update_password(service, new_password) ==
    IF ~HasKey(passwords, lower(service))
    THEN /\ lastCall' = Call("update", service, None, None, "None", <<>>,
                             <<"Service not found">>, <<>>)
         /\ io' = {}
         /\ UNCHANGED <<passwords, dataFile, faults>>
    ELSE \E pw \in (IF new_password = None THEN generate_password ELSE {new_password}) :
         \E outcome \in SaveOutcomes :
            /\ passwords' = DictSet(passwords, lower(service),
                                    [DictGet(passwords, lower(service))
                                        EXCEPT !.password = pw])
            /\ _save_passwords(passwords', outcome)
            /\ lastCall' = Call("update", service, None, pw, "None", <<>>,
                                (IF new_password = None THEN <<"Generated password">> ELSE <<>>)
                                \o SavePrinted(outcome) \o <<"Password updated">>,
                                Old(passwords, lower(service)))
            /\ io' = {"writeData"}

----------------------------------------------------------------------------
(* main: authenticate, then the menu loop until Exit; a later run starts   *)
(* with a new PasswordManager over the same files.                         *)

\* faulty variant: main ignores the result of setup_master_password
MainSetup_ignores_result ==
    /\ pc = "start"
    /\ \E master \in MasterPasswords, confirm \in MasterPasswords :
          setup_master_password(master, confirm)
    /\ pc' = "menu"
    /\ UNCHANGED <<dataFile, laterRun, faults, gen>>

MainSetup ==
    /\ pc = "start"
    /\ \E master \in MasterPasswords, confirm \in MasterPasswords :
          setup_master_password(master, confirm)
    /\ pc' = IF lastCall'.ret = "True" THEN "menu" ELSE "exited"
    /\ UNCHANGED <<dataFile, laterRun, faults, gen>>

MenuAdd ==
    /\ pc = "menu"
    /\ \E service \in Services, username \in Usernames,
          password \in UserPasswords \cup {None} :
          add_password(service, username, password)
    /\ UNCHANGED <<masterHashFile, keyFile, key, pc, laterRun, keyGens, setupMaster, gen>>

MenuGet ==
    /\ pc = "menu"
    /\ \E service \in Services : get_password(service)
    /\ UNCHANGED <<masterHashFile, keyFile, key, pc, laterRun, keyGens, setupMaster, gen>>

MenuSearch ==
    /\ pc = "menu"
    /\ \E query \in Queries : search(query)
    /\ UNCHANGED <<masterHashFile, keyFile, key, pc, laterRun, keyGens, setupMaster, gen>>

MenuUpdate ==
    /\ pc = "menu"
    /\ \E service \in Services, password \in UserPasswords \cup {None} :
          update_password(service, password)
    /\ UNCHANGED <<masterHashFile, keyFile, key, pc, laterRun, keyGens, setupMaster, gen>>

MenuDelete ==
    /\ pc = "menu"
    /\ \E service \in Services : delete_password(service)
    /\ UNCHANGED <<masterHashFile, keyFile, key, pc, laterRun, keyGens, setupMaster, gen>>

\* choice 9 ends the loop and the process; its memory is gone
MenuExit ==
    /\ pc = "menu"
    /\ pc' = "exited"
    /\ key' = NoKey
    /\ passwords' = <<>>
    /\ lastCall' = NoCall
    /\ io' = {}
    /\ UNCHANGED <<masterHashFile, keyFile, dataFile, laterRun,
                   keyGens, setupMaster, faults, gen>>

NewRun ==
    /\ pc = "exited"
    /\ laterRun' = TRUE
    /\ pc' = "start"
    /\ key' = NoKey
    /\ passwords' = <<>>
    /\ lastCall' = NoCall
    /\ io' = {}
    /\ UNCHANGED <<masterHashFile, keyFile, dataFile, keyGens, setupMaster, faults, gen>>

Next ==
    \/ MainSetup
    \/ MenuAdd
    \/ MenuGet
    \/ MenuSearch
    \/ MenuUpdate
    \/ MenuDelete
    \/ MenuExit
    \/ NewRun

Spec == Init /\ [][Next]_vars

\* menu choice 7: generate_password alone, whatever the state of the vault
NextGen ==
    \/ GenCall
    \/ GenFill
    \/ GenFillDone
    \/ GenShuffle
    \/ GenReturn
    \/ GenNext

SpecGen == Init /\ [][NextGen]_vars

----------------------------------------------------------------------------
TypeOK ==
    /\ keyFile \in {generate_key(1), NoKey}
    /\ key \in {keyFile, NoKey}
    /\ pc \in {"start", "menu", "exited"}
    /\ laterRun \in BOOLEAN
    /\ faults \in 0..MaxFaults

----------------------------------------------------------------------------
(* Helpers of the properties *)

InSeq(x, seq) == \E i \in 1..Len(seq) : seq[i] = x

Mutating == {"add", "update", "delete"}

\* the last call changed self.passwords and went through _save_passwords
Mutated == lastCall.op \in Mutating /\ io = {"writeData"}

\* decrypting and parsing the vault file with the session key yields self.passwords
DiskMatchesMemory ==
    /\ CanDecrypt(dataFile, key)
    /\ DictEq(JsonLoads(Decrypt(dataFile, key)), passwords)

----------------------------------------------------------------------------
(* C1: whenever a mutating call (add_password, update_password,            *)
(* delete_password) has returned, the vault file on disk decrypts and      *)
(* parses under the session key to exactly the in-memory passwords.        *)
C1_DiskIsMemoryAfterMutation ==
    (pc = "menu" /\ Mutated) => DiskMatchesMemory

(* C2: when the write of the vault file fails during a mutating call, the  *)
(* call surfaces a PersistError to its caller; it never returns normally   *)
(* with a success report while memory differs from disk.                   *)
C2_PersistFailureSurfaced ==
    (lastCall.op \in Mutating /\ InSeq("Error saving passwords", lastCall.out))
        => /\ lastCall.ret = "PersistError"
           /\ ~InSeq("Password saved", lastCall.out)
           /\ ~InSeq("Password updated", lastCall.out)
           /\ ~InSeq("Password deleted", lastCall.out)

(* C3: when a vault file exists but cannot be decrypted or parsed, loading *)
(* reports an error and the session is not handed an empty vault: setup    *)
(* does not succeed with an empty mapping over an unreadable file.         *)
C3_NoEmptyVaultOverCorruptFile ==
    (lastCall.op = "setup" /\ dataFile.exists /\ ~CanDecrypt(dataFile, keyFile))
        => lastCall.ret # "True"

(* C4: the encryption key is generated at most once over all runs: the    *)
(* first initialization without a key file generates and persists a key,   *)
(* every later initialization loads that same key, the key file never      *)
(* changes once written, and no key is generated while an encrypted vault  *)
(* file exists.                                                            *)
C4_KeyGeneratedOnce ==
    [][ /\ keyGens' <= 1
        /\ keyFile # NoKey => (keyFile' = keyFile /\ keyGens' = keyGens)
        /\ key' # NoKey => key' = keyFile'
        /\ keyGens' > keyGens =>
              (keyFile = NoKey /\ keyFile' # NoKey /\ ~(dataFile.exists /\ dataFile.intact))
      ]_vars

\* a later run has loaded the key under which the existing vault was encrypted
C4_Witness ==
    /\ laterRun
    /\ lastCall.op = "setup" /\ lastCall.ret = "True"
    /\ keyGens = 1 /\ key = keyFile
    /\ dataFile.intact /\ dataFile.key = key /\ Len(passwords) >= 1

(* C5: once a master-hash record exists, verification succeeds exactly     *)
(* for the password used at setup, fails for any other, and never changes  *)
(* the master-hash record.                                                 *)
C5_VerifyMasterPassword ==
    [][ (pc = "start" /\ masterHashFile # <<>> /\ lastCall'.op = "setup") =>
            /\ (lastCall'.ret = "True") <=> (lastCall'.password = setupMaster)
            /\ (lastCall'.ret = "False") <=> (lastCall'.password # setupMaster)
            /\ masterHashFile' = masterHashFile
      ]_vars

\* a wrong password was refused on a later run and the record is intact
C5_Witness ==
    /\ laterRun
    /\ lastCall.op = "setup" /\ lastCall.ret = "False"
    /\ lastCall.password # setupMaster
    /\ masterHashFile = <<"sha256", setupMaster>>

\* the file operations on the key file and the vault file
VaultIO == {"readKey", "writeKey", "readData", "writeData"}

(* C6: authentication gates the vault: a failed setup_master_password      *)
(* creates no key file, neither reads nor writes the vault file and ends   *)
(* the run; the menu is entered only by a successful setup; key and vault  *)
(* files are touched only by steps that end in the menu.                   *)
C6_AuthenticationGates ==
    [][ /\ (lastCall'.op = "setup" /\ lastCall'.ret = "False") =>
              /\ keyFile' = keyFile /\ dataFile' = dataFile
              /\ key' = NoKey /\ passwords' = <<>>
              /\ io' \cap VaultIO = {}
              /\ pc' = "exited"
        /\ (io' \cap VaultIO # {}) => pc' = "menu"
        /\ (pc' = "menu" /\ pc # "menu") =>
              (lastCall'.op = "setup" /\ lastCall'.ret = "True")
      ]_vars

\* a wrong master password over an existing vault: the run ended, vault untouched
C6_Witness ==
    /\ lastCall.op = "setup" /\ lastCall.ret = "False"
    /\ pc = "exited" /\ io = {"readHash"}
    /\ dataFile.exists /\ key = NoKey

(* C7: every key of the passwords mapping is the lowercased service of the *)
(* record stored under it, and no two records have services that are equal *)
(* ignoring case.                                                          *)
C7_KeysAreLoweredServices ==
    /\ \A i \in 1..Len(passwords) : passwords[i].key = lower(passwords[i].value.service)
    /\ \A i, j \in 1..Len(passwords) :
          i # j => lower(passwords[i].value.service) # lower(passwords[j].value.service)

\* two records, one of them with an upper-case letter in its service
C7_Witness ==
    /\ Len(passwords) = 2
    /\ \E i \in 1..2 : passwords[i].value.service # passwords[i].key

(* C8: add_password for a service whose lowercased form is already a key   *)
(* overwrites: the number of records is unchanged and the one record under *)
(* the key holds the call's service, username and password.                *)
C8_AddOverwrites ==
    [][ (pc = "menu" /\ lastCall'.op = "add"
            /\ HasKey(passwords, lower(lastCall'.service))) =>
            /\ Len(passwords') = Len(passwords)
            /\ Cardinality({i \in 1..Len(passwords') :
                              passwords'[i].key = lower(lastCall'.service)}) = 1
            /\ DictGet(passwords', lower(lastCall'.service)) =
                  Record(lastCall'.service, lastCall'.username, lastCall'.password)
      ]_vars

\* "gm" was added over the record of "Gm"
C8_Witness ==
    /\ lastCall.op = "add" /\ lastCall.service = <<"g", "m">>
    /\ lastCall.replaced = << <<"G", "m">> >>
    /\ DictGet(passwords, <<"g", "m">>).service = <<"g", "m">>

(* C9: after delete_password(s) succeeds, no t equal to s ignoring case    *)
(* has a record, every other record is unchanged, a get_password(t) that   *)
(* follows returns None and a delete_password(s) that follows reports      *)
(* not-found.                                                              *)
C9_DeleteThenGet ==
    [][ /\ (pc = "menu" /\ lastCall'.op = "delete"
               /\ HasKey(passwords, lower(lastCall'.service))) =>
              /\ \A t \in Services :
                    lower(t) = lower(lastCall'.service) => ~HasKey(passwords', lower(t))
              /\ Len(passwords') = Len(passwords) - 1
              /\ \A i \in 1..Len(passwords) :
                    passwords[i].key # lower(lastCall'.service) =>
                       /\ HasKey(passwords', passwords[i].key)
                       /\ DictGet(passwords', passwords[i].key) = passwords[i].value
        /\ (lastCall.op = "delete" /\ lastCall.replaced # <<>> /\ lastCall'.op = "get"
               /\ lower(lastCall'.service) = lower(lastCall.service)) =>
              (lastCall'.ret = "None" /\ lastCall'.result = <<>>)
        /\ (lastCall.op = "delete" /\ lastCall.replaced # <<>> /\ lastCall'.op = "delete"
               /\ lastCall'.service = lastCall.service) =>
              (lastCall'.out = <<"No password found">> /\ passwords' = passwords)
      ]_vars

\* "Gm" was deleted, found under "gm", and the other record is still there
C9_Witness ==
    /\ lastCall.op = "delete" /\ lastCall.service = <<"G", "m">>
    /\ lastCall.replaced = << <<"g", "m">> >>
    /\ Len(passwords) = 1 /\ passwords[1].key = <<"b">>

C11_GetIsPureLookup ==
    [][ (pc = "menu" /\ lastCall'.op = "get") =>
            /\ (\E i \in 1..Len(passwords) : passwords[i].key = lower(lastCall'.service)) =>
                  /\ lastCall'.ret = "Dict"
                  /\ \E i \in 1..Len(passwords) :
                        /\ passwords[i].key = lower(lastCall'.service)
                        /\ lastCall'.result = <<passwords[i]>>
            /\ (\A i \in 1..Len(passwords) : passwords[i].key # lower(lastCall'.service)) =>
                  (lastCall'.ret = "None" /\ lastCall'.result = <<>>)
            /\ passwords' = passwords
            /\ dataFile' = dataFile /\ keyFile' = keyFile
            /\ masterHashFile' = masterHashFile
            /\ io' = {}
      ]_vars

\* "Gm" was looked up and the record stored as "gm" came back
C11_Witness ==
    /\ lastCall.op = "get" /\ lastCall.service = <<"G", "m">>
    /\ lastCall.ret = "Dict"
    /\ lastCall.result[1].value.service = <<"g", "m">>
    /\ Len(passwords) = 2

(* C12: search(query) returns exactly the records whose key or lowercased  *)
(* username contains lower(query), in the order of the mapping; the empty  *)
(* query returns every record, a query contained in no key or username     *)
(* returns nothing, and the vault is not modified.                         *)
Matches(q, e) ==
    \/ \E i \in 0..(Len(e.key) - Len(q)) :
          \A n \in 1..Len(q) : e.key[i + n] = q[n]
    \/ \E i \in 0..(Len(e.value.username) - Len(q)) :
          \A n \in 1..Len(q) : LowerChar(e.value.username[i + n]) = q[n]

C12_SearchSubstring ==
    [][ (pc = "menu" /\ lastCall'.op = "search") =>
          LET q == lower(lastCall'.service)
              res == lastCall'.result
          IN /\ \A i \in 1..Len(passwords) :
                   Matches(q, passwords[i]) <=> (\E j \in 1..Len(res) : res[j] = passwords[i])
             /\ \A j \in 1..Len(res) : \E i \in 1..Len(passwords) : res[j] = passwords[i]
             /\ \A j, k \in 1..Len(res) :
                   j < k => \E a, b \in 1..Len(passwords) :
                               a < b /\ passwords[a] = res[j] /\ passwords[b] = res[k]
             /\ lastCall'.service = <<>> => res = passwords
             /\ (\A i \in 1..Len(passwords) : ~Matches(q, passwords[i])) => res = <<>>
             /\ passwords' = passwords
             /\ dataFile' = dataFile /\ keyFile' = keyFile
             /\ masterHashFile' = masterHashFile
             /\ io' = {}
      ]_vars

\* the query "M" found the record keyed "gm" and left out the record of "b"
C12_Witness ==
    /\ lastCall.op = "search" /\ lastCall.service = <<"M">>
    /\ Len(passwords) = 2 /\ Len(lastCall.result) = 1
    /\ lastCall.result[1].key = <<"g", "m">>
    /\ passwords[1].key = <<"b">>

----------------------------------------------------------------------------
(* Properties of generate_password, under SpecGen *)

\* the number of character classes a call must include
MandatoryCount(use_symbols, use_numbers) ==
    2 + (IF use_numbers THEN 1 ELSE 0) + (IF use_symbols THEN 1 ELSE 0)

HasCharOf(password, class) == \E n \in 1..Len(password) : password[n] \in class

(* C13: whenever generate_password returns a password, it has exactly      *)
(* `length` characters, all of the enabled universe, with at least one     *)
(* lowercase letter, one uppercase letter, one digit if use_numbers and    *)
(* one punctuation symbol if use_symbols.                                  *)
C13_GeneratedComposition ==
    (gen.pc = "returned" /\ gen.ret = "str") =>
        /\ Len(gen.password) = gen.length
        /\ \A n \in 1..Len(gen.password) :
              gen.password[n] \in Chars(gen.use_symbols, gen.use_numbers)
        /\ HasCharOf(gen.password, ascii_lowercase)
        /\ HasCharOf(gen.password, ascii_uppercase)
        /\ gen.use_numbers => HasCharOf(gen.password, digits)
        /\ gen.use_symbols => HasCharOf(gen.password, punctuation)

(* C14: generate_password fails with InvalidLength and returns no password *)
(* whenever length is smaller than the number of mandatory classes.        *)
C14_InvalidLengthRejected ==
    (gen.pc = "returned"
        /\ gen.length < MandatoryCount(gen.use_symbols, gen.use_numbers))
        => (gen.ret = "InvalidLength" /\ gen.password = <<>>)

----------------------------------------------------------------------------
(* C15: persisting is atomic: after any step of a mutating call, a failed  *)
(* write included, the vault file is either exactly what it was before or  *)
(* the complete ciphertext of the new mapping, never empty or truncated.   *)
C15_AtomicPersist ==
    [][ (pc = "menu" /\ lastCall'.op \in Mutating) =>
            \/ dataFile' = dataFile
            \/ /\ dataFile'.exists /\ dataFile'.intact
               /\ DictEq(JsonLoads(dataFile'.data), passwords')
      ]_vars

C17_AddReturnsInsertOrOverwrite ==
    lastCall.op = "add" =>
        lastCall.ret = (IF lastCall.replaced = <<>> THEN "Inserted" ELSE "Overwrote")

============================================================================
